---- MODULE Spec2Model ----
(***************************************************************************)
(* Model of sedpack.io.shard.shard_writer_flatbuffer.ShardWriterFlatBuffer *)
(* (src/src/sedpack/io/shard/shard_writer_flatbuffer.py).                  *)
(*                                                                         *)
(* Arrays are modelled with their raw memory bytes, the FlatBuffers        *)
(* builder with its byte array, its head and its bookkeeping, and the      *)
(* target paths with their file contents.                                  *)
(***************************************************************************)
EXTENDS Integers, Sequences, FiniteSets, TLC

(***************************************************************************)
(* Bounds of the model.                                                    *)
(***************************************************************************)
MaxCalls == 3
MaxEncodes == 3

(***************************************************************************)
(* Generic helpers on sequences and bytes.                                 *)
(***************************************************************************)
None == "None"

RECURSIVE Pow2(_)
Pow2(n) == IF n = 0 THEN 1 ELSE 2 * Pow2(n - 1)

Reverse(s) == [i \in 1..Len(s) |-> s[Len(s) + 1 - i]]

Zeros(n) == [i \in 1..n |-> 0]

RECURSIVE Flat(_)
Flat(ss) == IF ss = <<>> THEN <<>> ELSE Head(ss) \o Flat(Tail(ss))

RECURSIVE Product(_)
Product(s) == IF s = <<>> THEN 1 ELSE Head(s) * Product(Tail(s))

\* The size-byte little-endian two's complement rendering of the number x.
LittleEndianBytes(x, size) == [i \in 1..size |-> (x \div Pow2(8 * (i - 1))) % 256]

RECURSIVE LittleEndianValue(_)
LittleEndianValue(bs) ==
    IF bs = <<>> THEN 0 ELSE Head(bs) + 256 * LittleEndianValue(Tail(bs))

\* The number that little-endian bytes stand for in two's complement.
LittleEndianSigned(bs) ==
    LET n == Len(bs)
    IN  LittleEndianValue(SubSeq(bs, 1, n - 1))
        + (IF bs[n] >= 128 THEN bs[n] - 256 ELSE bs[n]) * Pow2(8 * (n - 1))

(***************************************************************************)
(* NumPy arrays as the writer uses them.  A dtype is a kind ("i" signed,   *)
(* "u" unsigned), an item size in bytes and the byte order it was          *)
(* declared with ("=" native, "<" little, ">" big).  An array holds its    *)
(* shape, its memory layout ("C" row-major, "F" column-major) and the raw  *)
(* bytes of its elements in memory order.                                  *)
(***************************************************************************)
DType(kind, size, order) == [kind |-> kind, itemsize |-> size, order |-> order]

\* Whether elements of the dtype lie in memory least significant byte first.
IsLittleEndian(dtype, sysbyteorder) ==
    \/ dtype.itemsize = 1
    \/ dtype.order = "<"
    \/ dtype.order = "=" /\ sysbyteorder = "little"

\* numpy.dtype.byteorder: "=" native, "|" not applicable, and "<" or ">"
\* only for an order that is not the native one.
byteorder(dtype, sysbyteorder) ==
    IF dtype.itemsize = 1 THEN "|"
    ELSE IF dtype.order = "=" THEN "="
    ELSE IF (dtype.order = "<") = (sysbyteorder = "little") THEN "="
    ELSE dtype.order

\* Two's complement memory bytes of the number v as an element of dtype.
ElementBytes(v, dtype, sysbyteorder) ==
    LET le == LittleEndianBytes(v, dtype.itemsize)
    IN  IF IsLittleEndian(dtype, sysbyteorder) THEN le ELSE Reverse(le)

\* The number an element of dtype with memory bytes bs stands for.
ElementValue(bs, dtype, sysbyteorder) ==
    LET le == IF IsLittleEndian(dtype, sysbyteorder) THEN bs ELSE Reverse(bs)
    IN  IF dtype.kind = "i" THEN LittleEndianSigned(le) ELSE LittleEndianValue(le)

\* Memory index (from 1) of the k-th element (from 1) in row-major order.
MemoryIndex(shape, layout, k) ==
    IF Len(shape) = 2 /\ layout = "F"
    THEN ((k - 1) % shape[2]) * shape[1] + ((k - 1) \div shape[2]) + 1
    ELSE k

\* The array a caller builds from numbers listed in row-major order.
MakeArray(dtype, shape, layout, numbers, sysbyteorder) ==
    [dtype |-> dtype, shape |-> shape, layout |-> layout,
     raw |-> [m \in 1..Len(numbers) |->
                ElementBytes(
                    numbers[CHOOSE k \in 1..Len(numbers) :
                                MemoryIndex(shape, layout, k) = m],
                    dtype, sysbyteorder)]]

\* The numbers of an array in row-major order.
Numbers(a, sysbyteorder) ==
    [k \in 1..Len(a.raw) |->
        ElementValue(a.raw[MemoryIndex(a.shape, a.layout, k)], a.dtype,
                     sysbyteorder)]

\* numpy.copy(a): a new array, same layout (order="K").
np_copy(a) == a

\* Mutant: the elements are taken in memory order, not in row-major order.
flatten_in_memory_order(a) ==
    [dtype |-> a.dtype, shape |-> <<Len(a.raw)>>, layout |-> "C", raw |-> a.raw]

\* ndarray.flatten(): a new one-dimensional array in row-major order.
flatten(a) ==
    [dtype |-> a.dtype, shape |-> <<Len(a.raw)>>, layout |-> "C",
     raw |-> [k \in 1..Len(a.raw) |-> a.raw[MemoryIndex(a.shape, a.layout, k)]]]

\* numpy.can_cast(from, to, casting="safe") on integer dtypes.
can_cast(from, to) ==
    \/ from.kind = to.kind /\ from.itemsize <= to.itemsize
    \/ from.kind = "u" /\ to.kind = "i" /\ from.itemsize < to.itemsize

\* numpy.array(a, dtype=dtype): a new array of the numbers of a as dtype.
np_array(a, dtype, sysbyteorder) ==
    [dtype |-> dtype, shape |-> a.shape, layout |-> a.layout,
     raw |-> [m \in 1..Len(a.raw) |->
                ElementBytes(ElementValue(a.raw[m], a.dtype, sysbyteorder),
                             dtype, sysbyteorder)]]

\* ndarray.byteswap(inplace=False): a new array, every element's bytes
\* reversed, same dtype.
byteswap(a) == [a EXCEPT !.raw = [m \in 1..Len(a.raw) |-> Reverse(a.raw[m])]]

\* ndarray.tobytes(order="C").
tobytes(a) ==
    Flat([k \in 1..Len(a.raw) |-> a.raw[MemoryIndex(a.shape, a.layout, k)]])

(***************************************************************************)
(* flatbuffers.Builder.  Bytes is the whole byte array, head the index     *)
(* (from 0) of the first used byte: the buffer is filled from its end      *)
(* towards its start.  A field that Python holds as None is -1 (numbers)   *)
(* or <<>> (lists).  A computation on a builder is a record of the         *)
(* builder b, the exception err raised so far (None when there is none)    *)
(* and the value ret returned by the last call.                            *)
(***************************************************************************)
UOffsetTBytewidth == 4
SOffsetTBytewidth == 4
VOffsetTBytewidth == 2
VtableMetadataFields == 2

Builder(initialSize) ==
    [Bytes |-> Zeros(initialSize), head |-> initialSize, minalign |-> 1,
     vtables |-> <<>>, nested |-> FALSE, vectorNumElems |-> -1,
     current_vtable |-> <<>>, objectEnd |-> -1, finished |-> FALSE]

Return(b, ret) == [b |-> b, err |-> None, ret |-> ret]
Raise(b, err) == [b |-> b, err |-> err, ret |-> -1]

Offset(b) == Len(b.Bytes) - b.head

\* The builder returned with its offset, as StartVector and EndVector do.
ReturnOffset(b) == Return(b, Offset(b))

growByteBuffer(b) ==
    [b EXCEPT !.Bytes = Zeros((IF Len(b.Bytes) = 0 THEN 1 ELSE 2 * Len(b.Bytes))
                              - Len(b.Bytes)) \o b.Bytes]

\* Bytes[at : at + len(bytes)] = bytes, at counted from 0.
WriteAt(Bytes, at, bytes) ==
    SubSeq(Bytes, 1, at) \o bytes \o SubSeq(Bytes, at + Len(bytes) + 1, Len(Bytes))

\* Place(x, flags): moves the head back by the width of x and writes the
\* little-endian rendering of x there.
Place(b, x, width) ==
    [b EXCEPT !.head = b.head - width,
              !.Bytes = WriteAt(b.Bytes, b.head - width,
                                LittleEndianBytes(x, width))]

\* Pad(n): places n zero bytes.
Pad(b, n) ==
    [b EXCEPT !.head = b.head - n,
              !.Bytes = WriteAt(b.Bytes, b.head - n, Zeros(n))]

\* The loop of Prep: the buffer is doubled, and the head moved by the
\* growth, until the head leaves room for needed bytes.
RECURSIVE GrowUntil(_, _)
GrowUntil(b, needed) ==
    IF b.head < needed
    THEN GrowUntil([growByteBuffer(b) EXCEPT
                       !.head = b.head + (IF Len(b.Bytes) = 0 THEN 1
                                          ELSE Len(b.Bytes))],
                   needed)
    ELSE b

\* The padding Prep needs; size is a power of two, so that
\* (~x + 1) & (size - 1) is (-x) mod size.
AlignSize(b, size, additionalBytes) ==
    (0 - (Len(b.Bytes) - b.head + additionalBytes)) % size

\* Prep(size, additionalBytes)
Prep(b, size, additionalBytes) ==
    Pad(GrowUntil(IF size > b.minalign THEN [b EXCEPT !.minalign = size] ELSE b,
                  AlignSize(b, size, additionalBytes) + size + additionalBytes),
        AlignSize(b, size, additionalBytes))

\* The body of PrependUOffsetTRelative after its Prep.
PlaceOffsetRelative(b, off, width) ==
    IF ~(off <= Offset(b)) THEN Raise(b, "OffsetArithmeticError")
    ELSE Return(Place(b, Offset(b) - off + width, width), -1)

PrependOffsetRelative(s, off, width) ==
    IF s.err # None THEN s
    ELSE PlaceOffsetRelative(Prep(s.b, width, 0), off, width)

PrependUOffsetTRelative(s, off) == PrependOffsetRelative(s, off, UOffsetTBytewidth)

PrependSOffsetTRelative(s, off) == PrependOffsetRelative(s, off, SOffsetTBytewidth)

PrependVOffsetT(b, x) == Place(Prep(b, VOffsetTBytewidth, 0), x, VOffsetTBytewidth)

StartVector(s, elemSize, numElems, alignment) ==
    IF s.err # None THEN s
    ELSE IF s.b.nested THEN Raise(s.b, "IsNestedError")
    ELSE ReturnOffset(
             Prep(Prep([s.b EXCEPT !.nested = TRUE, !.vectorNumElems = numElems],
                       4, elemSize * numElems),
                  alignment, elemSize * numElems))

EndVector(s) ==
    IF s.err # None THEN s
    ELSE IF ~s.b.nested THEN Raise(s.b, "IsNotNestedError")
    ELSE ReturnOffset(
             [Place(s.b, s.b.vectorNumElems, UOffsetTBytewidth) EXCEPT
                 !.nested = FALSE, !.vectorNumElems = -1])

StartObject(s, numfields) ==
    IF s.err # None THEN s
    ELSE IF s.b.nested THEN Raise(s.b, "IsNestedError")
    ELSE Return([s.b EXCEPT !.current_vtable = Zeros(numfields),
                            !.objectEnd = Offset(s.b),
                            !.nested = TRUE], -1)

Slot(s, slotnum) ==
    IF s.err # None THEN s
    ELSE IF ~s.b.nested THEN Raise(s.b, "IsNotNestedError")
    ELSE Return([s.b EXCEPT !.current_vtable[slotnum + 1] = Offset(s.b)], -1)

PrependUOffsetTRelativeSlot(s, o, x, d) ==
    IF s.err # None THEN s
    ELSE IF x # d THEN Slot(PrependUOffsetTRelative(s, x), o)
    ELSE s

\* The number of slots of the vtable that are kept: trailing empty slots
\* are trimmed.
KeptSlots(current_vtable) ==
    IF \A i \in 1..Len(current_vtable) : current_vtable[i] = 0 THEN 0
    ELSE CHOOSE n \in 1..Len(current_vtable) :
            /\ current_vtable[n] # 0
            /\ \A i \in (n + 1)..Len(current_vtable) : current_vtable[i] = 0

\* The kept slots as the vtable holds them: offsets from the object start.
VtableSlots(current_vtable, objectOffset) ==
    [i \in 1..KeptSlots(current_vtable) |->
        IF current_vtable[i] = 0 THEN 0 ELSE objectOffset - current_vtable[i]]

RECURSIVE PrependVtableSlots(_, _, _)
PrependVtableSlots(b, slots, i) ==
    IF i = 0 THEN b
    ELSE PrependVtableSlots(PrependVOffsetT(b, slots[i]), slots, i - 1)

\* WriteVtable, no equal vtable known: b holds the new vtable; its offset
\* goes to the start of the object and into vtables.
NewVtable(b, objectOffset, vtKey) ==
    Return([b EXCEPT
               !.Bytes = WriteAt(b.Bytes, Len(b.Bytes) - objectOffset,
                                 LittleEndianBytes(Offset(b) - objectOffset,
                                                   SOffsetTBytewidth)),
               !.vtables = (vtKey :> Offset(b)) @@ b.vtables,
               !.current_vtable = <<>>],
           objectOffset)

\* WriteVtable, an equal vtable known: the head goes back to the start of
\* the object, which gets the offset of that vtable.
SharedVtable(b, objectOffset, vtKey) ==
    Return([b EXCEPT
               !.head = Len(b.Bytes) - objectOffset,
               !.Bytes = WriteAt(b.Bytes, Len(b.Bytes) - objectOffset,
                                 LittleEndianBytes(b.vtables[vtKey] - objectOffset,
                                                   SOffsetTBytewidth)),
               !.current_vtable = <<>>],
           objectOffset)

\* WriteVtable after the object got its leading SOffsetT.
WriteVtableOf(b, objectOffset, slots) ==
    IF Reverse(slots) \notin DOMAIN b.vtables
    THEN NewVtable(
             PrependVOffsetT(
                 PrependVOffsetT(PrependVtableSlots(b, slots, Len(slots)),
                                 objectOffset - b.objectEnd),
                 (Len(slots) + VtableMetadataFields) * VOffsetTBytewidth),
             objectOffset, Reverse(slots))
    ELSE SharedVtable(b, objectOffset, Reverse(slots))

WriteVtableAt(s) ==
    IF s.err # None THEN s
    ELSE WriteVtableOf(s.b, Offset(s.b),
                       VtableSlots(s.b.current_vtable, Offset(s.b)))

WriteVtable(s) == WriteVtableAt(PrependSOffsetTRelative(s, 0))

EndObject(s) ==
    IF s.err # None THEN s
    ELSE IF ~s.b.nested THEN Raise(s.b, "IsNotNestedError")
    ELSE WriteVtable(Return([s.b EXCEPT !.nested = FALSE], -1))

\* Finish after the root offset is prepended.
Finished(s) ==
    IF s.err # None THEN s
    ELSE Return([s.b EXCEPT !.finished = TRUE], s.b.head)

Finish(s, rootTable) ==
    IF s.err # None THEN s
    ELSE Finished(PrependUOffsetTRelative(
                      Return(Prep(s.b, s.b.minalign, UOffsetTBytewidth), -1),
                      rootTable))

\* Builder.Output(): the used part of the byte array.
Output(b) == SubSeq(b.Bytes, b.head + 1, Len(b.Bytes))

(***************************************************************************)
(* The generated FlatBuffers API of shard.fbs: Shard, Example and          *)
(* Attribute are tables of one field each (slot 0).                        *)
(***************************************************************************)
AttributeStart(s) == StartObject(s, 1)
AttributeAddAttributeBytes(s, attributeBytes) ==
    PrependUOffsetTRelativeSlot(s, 0, attributeBytes, 0)
AttributeEnd(s) == EndObject(s)

ExampleStartAttributesVector(s, numElems) == StartVector(s, 4, numElems, 4)
ExampleStart(s) == StartObject(s, 1)
ExampleAddAttributes(s, attributes) ==
    PrependUOffsetTRelativeSlot(s, 0, attributes, 0)
ExampleEnd(s) == EndObject(s)

ShardStartExamplesVector(s, numElems) == StartVector(s, 4, numElems, 4)
ShardStart(s) == StartObject(s, 1)
ShardAddExamples(s, examples) == PrependUOffsetTRelativeSlot(s, 0, examples, 0)
ShardEnd(s) == EndObject(s)

(***************************************************************************)
(* Exceptions of the writer.                                               *)
(***************************************************************************)
TypeMismatch == "ValueError: Cannot cast value"
UnexpectedSysByteOrder == "ValueError: Unexpected sys.byteorder"
UnexpectedByteOrder == "ValueError: Unexpected value of byteorder"
MissingAttribute == "KeyError"

(***************************************************************************)
(* save_numpy_vector_as_bytearray.  The local variable value and the       *)
(* caller's array are tracked as a record: caller is the caller's array,   *)
(* value the array the local variable names, same whether the two are one  *)
(* object.  Binding the variable to a new array leaves the caller's array  *)
(* alone; changing the named array in place changes the caller's array     *)
(* when they are one object.                                               *)
(***************************************************************************)
Argument(value) == [caller |-> value, value |-> value, same |-> TRUE]

Rebind(local, array) == [caller |-> local.caller, value |-> array, same |-> FALSE]

InPlace(local, array) ==
    [caller |-> IF local.same THEN array ELSE local.caller,
     value |-> array, same |-> local.same]

\* Mutant: a native value is taken to be little-endian on every host.
EnsureLittleEndianNativeAsIs(local, tag, sysbyteorder) ==
    CASE tag = ">" -> [err |-> None, local |-> Rebind(local, byteswap(local.value))]
      [] tag \in {"=", "<", "|"} -> [err |-> None, local |-> local]
      [] OTHER -> [err |-> UnexpectedByteOrder, local |-> local]

\* The match on value.dtype.byteorder and sys.byteorder.
EnsureLittleEndian(local, tag, sysbyteorder) ==
    CASE tag = "=" ->
            (CASE sysbyteorder = "big" ->
                    [err |-> None, local |-> Rebind(local, byteswap(local.value))]
               [] sysbyteorder = "little" -> [err |-> None, local |-> local]
               [] OTHER -> [err |-> UnexpectedSysByteOrder, local |-> local])
      [] tag = ">" -> [err |-> None, local |-> Rebind(local, byteswap(local.value))]
      [] tag \in {"<", "|"} -> [err |-> None, local |-> local]
      [] OTHER -> [err |-> UnexpectedByteOrder, local |-> local]

\* The match on the byte order of the value the variable names.
EnsureLittleEndianValue(local, sysbyteorder) ==
    EnsureLittleEndian(local, byteorder(local.value.dtype, sysbyteorder),
                       sysbyteorder)

\* The cast check and the cast, on the flattened copy.
CheckAndCast(attribute, copied, sysbyteorder) ==
    IF ~can_cast(copied.value.dtype, attribute.dtype)
    THEN [err |-> TypeMismatch, local |-> copied]
    ELSE EnsureLittleEndianValue(
             Rebind(copied, np_array(copied.value, attribute.dtype, sysbyteorder)),
             sysbyteorder)

\* Mutant: no copy is made and the array is changed in place, so that the
\* caller's array ends as the local one.
PrepareValueInPlace(attribute, value, sysbyteorder) ==
    [CheckAndCast(attribute, Rebind(Argument(value), flatten(np_copy(value))),
                  sysbyteorder)
        EXCEPT !.local = [caller |-> @.value, value |-> @.value, same |-> TRUE]]

\* Copy, flatten, check the cast, cast, and ensure little endian.
PrepareValue(attribute, value, sysbyteorder) ==
    CheckAndCast(attribute, Rebind(Argument(value), flatten(np_copy(value))),
                 sysbyteorder)

\* Bytes[head : head + length] = byte_representation
SetBytes(b, byte_representation) ==
    [b EXCEPT !.Bytes = WriteAt(b.Bytes, b.head, byte_representation)]

\* Mutant: the head is not moved before the bytes are copied.
CopyBytesHeadNotMoved(s, byte_representation) ==
    IF s.err # None THEN s
    ELSE EndVector(
             Return([SetBytes(s.b, byte_representation)
                        EXCEPT !.vectorNumElems = Len(byte_representation)],
                    -1))

\* After StartVector: move the head, copy the bytes, set vectorNumElems,
\* end the vector.
CopyBytes(s, byte_representation) ==
    IF s.err # None THEN s
    ELSE EndVector(
             Return([SetBytes([s.b EXCEPT !.head = s.b.head - Len(byte_representation)],
                              byte_representation)
                        EXCEPT !.vectorNumElems = Len(byte_representation)],
                    -1))

\* Mutant: the vector is started and ended with the number of elements of
\* the array, each of the size of the dtype, in place of the number of bytes.
EmbedElements(s, byte_representation, alignment) ==
    IF s.err # None THEN s
    ELSE EndVector(
             Return([SetBytes(
                         [StartVector(s, alignment,
                                      Len(byte_representation) \div alignment,
                                      alignment).b
                             EXCEPT !.head = @ - Len(byte_representation)],
                         byte_representation)
                        EXCEPT !.vectorNumElems =
                                   Len(byte_representation) \div alignment],
                    -1))

\* Start a vector of bytes, move the head, copy the bytes, end the vector.
EmbedBytes(s, byte_representation, alignment) ==
    CopyBytes(StartVector(s, 1, Len(byte_representation), alignment),
              byte_representation)

\* The outcome of the encoder: the builder computation and the caller's
\* array after the call.
Encoded(s, caller) == [b |-> s.b, err |-> s.err, ret |-> s.ret, caller |-> caller]

\* Mutant: the vector is started before the cast is checked.
EmbedStartedFirst(s, prepared) ==
    IF prepared.err # None
    THEN Encoded([StartVector(s, 1, Len(tobytes(prepared.local.value)),
                              prepared.local.value.dtype.itemsize)
                     EXCEPT !.err = prepared.err, !.ret = -1],
                 prepared.local.caller)
    ELSE Encoded(EmbedBytes(s, tobytes(prepared.local.value),
                            prepared.local.value.dtype.itemsize),
                 prepared.local.caller)

\* The prepared value is embedded, unless preparing it raised.
Embed(s, prepared) ==
    IF prepared.err # None
    THEN Encoded(Raise(s.b, prepared.err), prepared.local.caller)
    ELSE Encoded(EmbedBytes(s, tobytes(prepared.local.value),
                            prepared.local.value.dtype.itemsize),
                 prepared.local.caller)

save_numpy_vector_as_bytearray(s, attribute, value, sysbyteorder) ==
    Embed(s, PrepareValue(attribute, value, sysbyteorder))

(***************************************************************************)
(* The caller's example: a Python dict, modelled as the sequence of its    *)
(* items (name, array) in the order the dict holds them.                   *)
(***************************************************************************)
Keys(values) == {values[i].name : i \in 1..Len(values)}

Lookup(values, name) ==
    values[CHOOSE i \in 1..Len(values) : values[i].name = name].array

(***************************************************************************)
(* ShardWriterFlatBuffer.  A writer is a record of dataset_structure,      *)
(* _shard_file, _examples and _builder; _builder is <<>> for None and      *)
(* <<b>> for the builder b.                                                *)
(***************************************************************************)
ShardWriterFlatBuffer(dataset_structure, shard_file) ==
    [dataset_structure |-> dataset_structure, _shard_file |-> shard_file,
     _examples |-> <<>>, _builder |-> <<>>]

\* Prepends the offsets one after the other, the first one first.
RECURSIVE PrependAll(_, _)
PrependAll(s, offsets) ==
    IF offsets = <<>> \/ s.err # None THEN s
    ELSE PrependAll(PrependUOffsetTRelative(s, Head(offsets)), Tail(offsets))

\* Mutant: the attribute offsets are prepended without reversed().
PrependAttributesInOrder(s, saved_attributes) == PrependAll(s, saved_attributes)

\* for offset in reversed(saved_attributes): PrependUOffsetTRelative(offset)
PrependAttributes(s, saved_attributes) == PrependAll(s, Reverse(saved_attributes))

\* Mutant: the example offsets are prepended without reversed().
PrependExamplesInOrder(s, examples) == PrependAll(s, examples)

\* for offset in reversed(self._examples): PrependUOffsetTRelative(offset)
PrependExamples(s, examples) == PrependAll(s, Reverse(examples))

\* The value of the attribute in the caller's example after the encoder
\* has run on it.
PutBack(values, name, array) ==
    [i \in 1..Len(values) |->
        IF values[i].name = name THEN [values[i] EXCEPT !.array = array]
        ELSE values[i]]

\* The loop over saved_data_description, from the i-th attribute on:
\* SaveAttributes looks the value up and calls the encoder, AfterEncoder
\* builds the Attribute table, AfterAttribute appends its offset.  The
\* result is the builder computation, the caller's example and
\* saved_attributes.
RECURSIVE SaveAttributes(_, _, _, _, _, _)
RECURSIVE AfterEncoder(_, _, _, _, _, _)
RECURSIVE AfterAttribute(_, _, _, _, _, _)
SaveAttributes(s, description, i, values, saved_attributes, sysbyteorder) ==
    IF i > Len(description) \/ s.err # None
    THEN [s |-> s, values |-> values, saved_attributes |-> saved_attributes]
    ELSE IF description[i].name \notin Keys(values)
    THEN [s |-> Raise(s.b, MissingAttribute), values |-> values,
          saved_attributes |-> saved_attributes]
    ELSE AfterEncoder(
             save_numpy_vector_as_bytearray(
                 s, description[i], Lookup(values, description[i].name),
                 sysbyteorder),
             description, i, values, saved_attributes, sysbyteorder)

AfterEncoder(encoded, description, i, values, saved_attributes, sysbyteorder) ==
    AfterAttribute(
        AttributeEnd(
            AttributeAddAttributeBytes(
                AttributeStart([b |-> encoded.b, err |-> encoded.err,
                                ret |-> encoded.ret]),
                encoded.ret)),
        description, i, PutBack(values, description[i].name, encoded.caller),
        saved_attributes, sysbyteorder)

AfterAttribute(s, description, i, values, saved_attributes, sysbyteorder) ==
    SaveAttributes(s, description, i + 1, values,
                   IF s.err = None THEN Append(saved_attributes, s.ret)
                   ELSE saved_attributes,
                   sysbyteorder)

\* The example table around the attributes vector.
WrapExample(s) == ExampleEnd(ExampleAddAttributes(ExampleStart(s), s.ret))

\* The attributes vector and the example table.
SaveExample(s, saved_attributes) ==
    WrapExample(
        EndVector(
            PrependAttributes(
                ExampleStartAttributesVector(s, Len(saved_attributes)),
                saved_attributes)))

\* Mutant: the example list gains an entry whether or not the call raised.
AppendAlways(examples, s) == Append(examples, s.ret)

\* self._examples.append(ExampleEnd(builder)): reached only when nothing
\* raised before it.
AppendExample(examples, s) ==
    IF s.err = None THEN Append(examples, s.ret) ELSE examples

\* The outcome of _write: the writer and the caller's example after the
\* call, and the exception raised (None when the call returns).
Written(self, values, s) ==
    [self |-> [self EXCEPT !._builder = <<s.b>>,
                           !._examples = AppendExample(self._examples, s)],
     values |-> values,
     err |-> s.err]

\* _write after the loop over the attributes.
WriteExample(self, saved) ==
    Written(self, saved.values, SaveExample(saved.s, saved.saved_attributes))

\* _write(values)
_write(self, values, sysbyteorder) ==
    WriteExample(
        self,
        SaveAttributes(
            Return(IF self._builder = <<>> THEN Builder(0) ELSE self._builder[1], -1),
            self.dataset_structure.saved_data_description,
            1, values, <<>>, sysbyteorder))

(***************************************************************************)
(* Storage.  The file at a path is <<>> when there is none and <<bytes>>   *)
(* when there is one, bytes being its contents after decompression.  An    *)
(* I/O call goes one of three ways: "ok", "open fails" (the destination    *)
(* cannot be opened), "write fails" (the destination is opened and         *)
(* truncated, and the write stops half way).                               *)
(***************************************************************************)
IOOutcomes == {"ok", "open fails", "write fails"}
IOError == "OSError"

\* CompressedFile(compression).open(path, "wb"): the handle, or no handle.
CompressedFile_open(file, outcome) ==
    IF outcome = "open fails"
    THEN [err |-> IOError, opened |-> FALSE, file |-> file]
    ELSE [err |-> None, opened |-> TRUE, file |-> <<<<>>>>]

\* file.write(data) on an open handle.
file_write(file, data, outcome) ==
    IF outcome = "write fails"
    THEN [err |-> IOError, file |-> <<SubSeq(data, 1, Len(data) \div 2)>>]
    ELSE [err |-> None, file |-> <<data>>]

\* The outcome of the with block: the exception raised (None when there
\* is none), the file, the handles acquired and released.
Scoped(err, file, acquired, released) ==
    [err |-> err, file |-> file, acquired |-> acquired, released |-> released]

\* Mutant: the handle is released by a call after the write, which an
\* exception skips.
WriteAndLeak(opened, data, outcome) ==
    IF ~opened.opened THEN Scoped(opened.err, opened.file, 0, 0)
    ELSE Scoped(file_write(opened.file, data, outcome).err,
                file_write(opened.file, data, outcome).file, 1,
                IF file_write(opened.file, data, outcome).err = None THEN 1 ELSE 0)

\* The body of the with block on the opened destination; the handle is
\* released when the block is left, whichever way.
WriteAndRelease(opened, data, outcome) ==
    IF ~opened.opened THEN Scoped(opened.err, opened.file, 0, 0)
    ELSE Scoped(file_write(opened.file, data, outcome).err,
                file_write(opened.file, data, outcome).file, 1, 1)

\* with CompressedFile(...).open(path, "wb") as file: file.write(data)
WithOpenWrite(file, data, outcome) ==
    WriteAndRelease(CompressedFile_open(file, outcome), data, outcome)

\* The shard table around the examples vector, and Finish.
FinishShard(s) == Finish(s, s.ret)

WrapShard(s) == FinishShard(ShardEnd(ShardAddExamples(ShardStart(s), s.ret)))

\* The examples vector, the shard table and Finish.
SaveShard(s, examples) ==
    WrapShard(
        EndVector(
            PrependExamples(
                ShardStartExamplesVector(s, Len(examples)), examples)))

\* The outcome of close(): the writer and the file at its path after the
\* call, the exception raised (None when the call returns), and the handles
\* the call acquired and released.
Closed(self, file, err, acquired, released) ==
    [self |-> self, file |-> file, err |-> err, acquired |-> acquired,
     released |-> released]

\* Mutant: the empty writer returns without looking at the target path.
NothingToSaveUnchecked(self, file) == Closed(self, file, None, 0, 0)

\* Mutant: the empty writer leaves an empty file at the target path.
NothingToSaveTouches(self, file) == Closed(self, <<<<>>>>, None, 0, 0)

\* if not self._examples: assert not self._shard_file.is_file(); return
NothingToSave(self, file) ==
    Closed(self, file, IF file # <<>> THEN "AssertionError" ELSE None, 0, 0)

\* Mutant: the builder is kept after the file is written.
WriteFileKeepBuilder(self, b, io) ==
    Closed([self EXCEPT !._builder = <<b>>],
           io.file, io.err, io.acquired, io.released)

\* The end of close(): self._builder = None is reached when the with block
\* raised nothing.
WriteFile(self, b, io) ==
    Closed([self EXCEPT !._builder = IF io.err = None THEN <<>> ELSE <<b>>],
           io.file, io.err, io.acquired, io.released)

\* close() after the shard is built in the builder.
SaveFile(self, file, outcome, s) ==
    IF s.err # None
    THEN Closed([self EXCEPT !._builder = <<s.b>>], file, s.err, 0, 0)
    ELSE WriteFile(self, s.b, WithOpenWrite(file, Output(s.b), outcome))

\* close()
close(self, file, outcome) ==
    IF self._examples = <<>> THEN NothingToSave(self, file)
    ELSE IF self._builder = <<>> THEN Closed(self, file, "AttributeError", 0, 0)
    ELSE SaveFile(self, file, outcome,
                  SaveShard(Return(self._builder[1], -1), self._examples))

(***************************************************************************)
(* The reader of a shard file (flatbuffers tables and vectors, and         *)
(* IterateShardFlatBuffer.decode_array).  Positions count from 0.          *)
(***************************************************************************)
UIntAt(bytes, pos, width) == LittleEndianValue(SubSeq(bytes, pos + 1, pos + width))

IntAt(bytes, pos, width) == LittleEndianSigned(SubSeq(bytes, pos + 1, pos + width))

\* The position a uoffset stored at pos points to.
Indirect(bytes, pos) == pos + UIntAt(bytes, pos, UOffsetTBytewidth)

\* The position of the field in slot 0 of the table at pos.
Slot0(bytes, pos) ==
    LET vtable == pos - IntAt(bytes, pos, SOffsetTBytewidth)
    IN  pos + UIntAt(bytes, vtable + VtableMetadataFields * VOffsetTBytewidth,
                     VOffsetTBytewidth)

\* The vector held by slot 0 of the table at pos: position and length.
VectorOf(bytes, pos) ==
    LET vector == Indirect(bytes, Slot0(bytes, pos))
    IN  [start |-> vector + UOffsetTBytewidth,
         length |-> UIntAt(bytes, vector, UOffsetTBytewidth)]

\* The tables of the vector of tables held by slot 0 of the table at pos.
TablesOf(bytes, pos) ==
    LET v == VectorOf(bytes, pos)
    IN  [k \in 1..v.length |->
            Indirect(bytes, v.start + UOffsetTBytewidth * (k - 1))]

\* The byte vector of an Attribute table.
AttributeBytes(bytes, pos) ==
    LET v == VectorOf(bytes, pos)
    IN  SubSeq(bytes, v.start + 1, v.start + v.length)

\* The shard: its examples in order, each the byte vectors of its
\* attributes in order.
ReadShard(bytes) ==
    LET examples == TablesOf(bytes, Indirect(bytes, 0))
    IN  [i \in 1..Len(examples) |->
            LET attributes == TablesOf(bytes, examples[i])
            IN  [j \in 1..Len(attributes) |->
                    AttributeBytes(bytes, attributes[j])]]

\* decode_array: the bytes as little-endian elements of the declared dtype,
\* in row-major order.
decode_array(bytes, attribute) ==
    [k \in 1..(Len(bytes) \div attribute.dtype.itemsize) |->
        LET element == SubSeq(bytes, (k - 1) * attribute.dtype.itemsize + 1,
                              k * attribute.dtype.itemsize)
        IN  IF attribute.dtype.kind = "i" THEN LittleEndianSigned(element)
            ELSE LittleEndianValue(element)]

(***************************************************************************)
(* The schema and the examples the callers of the model write.             *)
(***************************************************************************)
\* The bytes of the byte vector at an offset of the builder.
StoredBytes(b, offset) ==
    SubSeq(b.Bytes, Len(b.Bytes) - offset + UOffsetTBytewidth + 1,
           Len(b.Bytes) - offset + UOffsetTBytewidth
               + UIntAt(b.Bytes, Len(b.Bytes) - offset, UOffsetTBytewidth))

Int8 == DType("i", 1, "=")
UInt8 == DType("u", 1, "=")
Int16 == DType("i", 2, "=")
UInt16 == DType("u", 2, "=")
Int32 == DType("i", 4, "=")

Attribute(name, dtype, shape) == [name |-> name, dtype |-> dtype, shape |-> shape]

saved_data_description ==
    << Attribute("a", Int16, <<2>>),
       Attribute("b", UInt8, <<1>>),
       Attribute("c", DType("i", 2, ">"), <<1>>) >>

DatasetStructure ==
    [saved_data_description |-> saved_data_description, compression |-> ""]

Item(name, array) == [name |-> name, array |-> array]

\* Examples whose arrays all cast safely, with their keys in two orders.
GoodExamples(h) ==
    { << Item("a", MakeArray(Int16, <<2>>, "C", <<1, -2>>, h)),
         Item("b", MakeArray(UInt8, <<1>>, "C", <<7>>, h)),
         Item("c", MakeArray(Int16, <<1>>, "C", <<258>>, h)) >>,
      << Item("c", MakeArray(Int8, <<1>>, "C", <<-3>>, h)),
         Item("b", MakeArray(UInt8, <<1>>, "C", <<200>>, h)),
         Item("a", MakeArray(DType("i", 2, ">"), <<2>>, "C", <<513, -1>>, h)) >> }

\* Examples with one array that does not cast safely: the first, the
\* middle or the last attribute of the schema.
MismatchedExamples(h) ==
    { << Item("a", MakeArray(Int32, <<2>>, "C", <<5, 6>>, h)),
         Item("b", MakeArray(UInt8, <<1>>, "C", <<8>>, h)),
         Item("c", MakeArray(Int16, <<1>>, "C", <<9>>, h)) >>,
      << Item("b", MakeArray(Int8, <<1>>, "C", <<-8>>, h)),
         Item("a", MakeArray(Int16, <<2>>, "C", <<5, 6>>, h)),
         Item("c", MakeArray(Int16, <<1>>, "C", <<9>>, h)) >>,
      << Item("a", MakeArray(DType("i", 2, "<"), <<2>>, "C", <<5, 6>>, h)),
         Item("c", MakeArray(UInt16, <<1>>, "C", <<40000>>, h)),
         Item("b", MakeArray(UInt8, <<1>>, "C", <<8>>, h)) >> }

\* Examples that lack the value of one attribute: the first, the middle
\* or the last attribute of the schema.
IncompleteExamples(h) ==
    { << Item("b", MakeArray(UInt8, <<1>>, "C", <<11>>, h)),
         Item("c", MakeArray(Int16, <<1>>, "C", <<12>>, h)) >>,
      << Item("c", MakeArray(Int16, <<1>>, "C", <<12>>, h)),
         Item("a", MakeArray(Int16, <<2>>, "C", <<13, 14>>, h)) >>,
      << Item("a", MakeArray(Int16, <<2>>, "C", <<13, 14>>, h)),
         Item("b", MakeArray(UInt8, <<1>>, "C", <<11>>, h)) >> }

Examples(h) ==
    GoodExamples(h) \cup MismatchedExamples(h) \cup IncompleteExamples(h)

(***************************************************************************)
(* The state.                                                              *)
(*   sysbyteorder  sys.byteorder of the host                               *)
(*   writers       the ShardWriterFlatBuffer instances, by identity        *)
(*   files         the file at each target path                            *)
(*   handles       the number of destination handles that are open         *)
(*   calls         per writer, the calls made on it: operation and the     *)
(*                 exception raised                                        *)
(*   accepted      per writer, the examples of the write calls that        *)
(*                 returned, in call order                                 *)
(*   last          the last call: the writer, the caller's example and the *)
(*                 file before it, the caller's example after it, how the  *)
(*                 I/O of a close() went, the handles it acquired and      *)
(*                 released                                                *)
(*   enc           the encoder called on its own: see the second           *)
(*                 specification below                                     *)
(*   alone         per writer, the writer and the file at its path as they *)
(*                 are when the calls made on it are made on a writer that *)
(*                 runs alone: see the third specification below           *)
(***************************************************************************)
VARIABLES sysbyteorder, writers, files, handles, calls, accepted, last, enc,
          alone

vars ==
    <<sysbyteorder, writers, files, handles, calls, accepted, last, enc, alone>>

WriterIds == {1}

ShardFile(id) == id

\* A file left at a target path by something else.
StaleFile == <<<<0>>>>

NoCall ==
    [op |-> "none", id |-> 0, err |-> None, before |-> <<>>, given |-> <<>>,
     values |-> <<>>, file |-> <<>>, outcome |-> "none", acquired |-> 0,
     released |-> 0]

NoEncode ==
    [n |-> 0, b |-> <<>>, before |-> <<>>, attribute |-> <<>>, value |-> <<>>,
     caller |-> <<>>, err |-> None, ret |-> -1, vectors |-> <<>>]

InitWriters(ids) ==
    /\ sysbyteorder \in {"little", "big"}
    /\ writers = [id \in ids |-> ShardWriterFlatBuffer(DatasetStructure, ShardFile(id))]
    /\ files \in [{ShardFile(id) : id \in ids} -> {<<>>, StaleFile}]
    /\ handles = 0
    /\ calls = [id \in ids |-> <<>>]
    /\ accepted = [id \in ids |-> <<>>]
    /\ last = NoCall
    /\ enc = NoEncode

Init == InitWriters(WriterIds) /\ alone = <<>>

\* Mutant: _examples is one list of the class, shared by the instances.
StoreSharedExamples(ws, id, self) ==
    [j \in DOMAIN ws |->
        IF j = id THEN self ELSE [ws[j] EXCEPT !._examples = self._examples]]

\* self._examples and self._builder are attributes of the instance: a call
\* on the writer id changes that writer and no other.
Store(ws, id, self) == [ws EXCEPT ![id] = self]

Call(op, err) == [op |-> op, err |-> err]

\* The state after writer.write(values) with outcome r.
AfterWrite(id, values, r) ==
    /\ writers' = Store(writers, id, r.self)
    /\ calls' = [calls EXCEPT ![id] = Append(@, Call("write", r.err))]
    /\ accepted' = [accepted EXCEPT ![id] =
                       IF r.err = None THEN Append(@, values) ELSE @]
    /\ last' = [op |-> "write", id |-> id, err |-> r.err,
                before |-> writers[id], given |-> values,
                values |-> r.values, file |-> files[ShardFile(id)],
                outcome |-> "none", acquired |-> 0, released |-> 0]
    /\ UNCHANGED <<sysbyteorder, files, handles, enc>>

\* writer.write(values)
Write(id, values) ==
    /\ Len(calls[id]) < MaxCalls
    /\ AfterWrite(id, values, _write(writers[id], values, sysbyteorder))
    /\ UNCHANGED alone

\* The state after writer.close() with outcome r, the I/O going as io.
AfterClose(id, io, r) ==
    /\ writers' = Store(writers, id, r.self)
    /\ files' = [files EXCEPT ![writers[id]._shard_file] = r.file]
    /\ handles' = handles + r.acquired - r.released
    /\ calls' = [calls EXCEPT ![id] = Append(@, Call("close", r.err))]
    /\ last' = [op |-> "close", id |-> id, err |-> r.err,
                before |-> writers[id], given |-> <<>>,
                values |-> <<>>, file |-> files[ShardFile(id)],
                outcome |-> io, acquired |-> r.acquired, released |-> r.released]
    /\ UNCHANGED <<sysbyteorder, accepted, enc>>

\* writer.close()
Close(id, outcome) ==
    /\ Len(calls[id]) < MaxCalls
    /\ AfterClose(id, outcome,
                  close(writers[id], files[writers[id]._shard_file], outcome))
    /\ UNCHANGED alone

Next ==
    \/ \E id \in DOMAIN writers, values \in Examples(sysbyteorder) : Write(id, values)
    \/ \E id \in DOMAIN writers, outcome \in IOOutcomes : Close(id, outcome)

Spec == Init /\ [][Next]_vars

(***************************************************************************)
(* Second specification: save_numpy_vector_as_bytearray called on its own, *)
(* a static method on a builder of the caller.  enc holds the builder      *)
(* before and after the last call, the attribute and the array passed, the *)
(* caller's array after the call, the exception raised or the offset       *)
(* returned, and for every call that returned the offset it returned and   *)
(* the bytes of its vector as they were then.  The first call of a run takes any of EncoderInputs, a later  *)
(* call one of MoreEncoderInputs.                                          *)
(***************************************************************************)
DeclaredDTypes ==
    {Int8, UInt8, Int16, DType("i", 2, "<"), DType("i", 2, ">"), UInt16,
     Int32, DType("i", 4, ">")}

ValueDTypes ==
    {Int8, UInt8, Int16, DType("i", 2, "<"), DType("i", 2, ">"), Int32}

Shapes == {<<2>>, <<2, 3>>}

Layouts(shape) == IF Len(shape) = 2 THEN {"C", "F"} ELSE {"C"}

\* Numbers for an array of the dtype and shape, in row-major order.
SomeNumbers(dtype, shape) ==
    LET all == CASE dtype.kind = "u" -> <<1, 200, 3, 4, 255, 6>>
                 [] dtype.itemsize = 1 -> <<1, -2, 3, -128, 5, 127>>
                 [] OTHER -> <<258, -2, 3, -300, 5, 32767>>
    IN  SubSeq(all, 1, Product(shape))

EncoderInputs(h) ==
    { [attribute |-> Attribute("x", declared, shape),
       value |-> MakeArray(dtype, shape, layout, SomeNumbers(dtype, shape), h)] :
        <<declared, dtype, shape, layout>> \in
            { t \in DeclaredDTypes \X ValueDTypes \X Shapes \X {"C", "F"} :
                t[4] \in Layouts(t[3]) } }

MoreEncoderInputs(h) ==
    { [attribute |-> Attribute("x", Int16, <<2>>),
       value |-> MakeArray(Int16, <<2>>, "C", <<-2, 258>>, h)],
      [attribute |-> Attribute("x", UInt8, <<1>>),
       value |-> MakeArray(UInt8, <<1>>, "C", <<7>>, h)],
      [attribute |-> Attribute("x", Int16, <<2>>),
       value |-> MakeArray(Int32, <<2>>, "C", <<5, 6>>, h)],
      [attribute |-> Attribute("x", DType("i", 4, ">"), <<2>>),
       value |-> MakeArray(Int8, <<2>>, "C", <<-1, 2>>, h)] }

InitEnc ==
    /\ sysbyteorder \in {"little", "big"}
    /\ writers = <<>>
    /\ files = <<>>
    /\ handles = 0
    /\ calls = <<>>
    /\ accepted = <<>>
    /\ last = NoCall
    /\ enc = [NoEncode EXCEPT !.b = Builder(0), !.before = Builder(0)]
    /\ alone = <<>>

\* The state after the encoder call with outcome r.
AfterEncode(input, r) ==
    /\ enc' = [n |-> enc.n + 1, b |-> r.b, before |-> enc.b,
               attribute |-> input.attribute, value |-> input.value,
               caller |-> r.caller, err |-> r.err, ret |-> r.ret,
               vectors |-> IF r.err # None THEN enc.vectors
                           ELSE Append(enc.vectors,
                                       [ret |-> r.ret,
                                        bytes |-> StoredBytes(r.b, r.ret)])]
    /\ UNCHANGED <<sysbyteorder, writers, files, handles, calls, accepted, last,
                   alone>>

\* ShardWriterFlatBuffer.save_numpy_vector_as_bytearray(builder, attribute, value)
Encode(input) ==
    /\ enc.n < MaxEncodes
    /\ AfterEncode(input,
                   save_numpy_vector_as_bytearray(Return(enc.b, -1),
                                                  input.attribute, input.value,
                                                  sysbyteorder))

NextEnc ==
    \E input \in (IF enc.n = 0 THEN EncoderInputs(sysbyteorder)
                  ELSE MoreEncoderInputs(sysbyteorder)) : Encode(input)

SpecEnc == InitEnc /\ [][NextEnc]_vars

(***************************************************************************)
(* Third specification: two writers with distinct target paths, their      *)
(* calls interleaved in every order.  Next to each writer, alone holds the *)
(* writer and the file that the same calls give when they are made on a    *)
(* writer of its own, with nothing else running.                           *)
(***************************************************************************)
MaxCallsEach == 2

TwoWriterIds == {1, 2}

\* The examples written to each of the two writers: one that is accepted,
\* a different one for each writer, and one that is rejected.
ExamplesOf(id, h) ==
    { << Item("a", MakeArray(Int16, <<2>>, "C", <<id, -2>>, h)),
         Item("b", MakeArray(UInt8, <<1>>, "C", <<7>>, h)),
         Item("c", MakeArray(Int16, <<1>>, "C", <<258>>, h)) >>,
      << Item("b", MakeArray(Int8, <<1>>, "C", <<-8>>, h)),
         Item("a", MakeArray(Int16, <<2>>, "C", <<5, 6>>, h)),
         Item("c", MakeArray(Int16, <<1>>, "C", <<9>>, h)) >> }

InitTwo ==
    /\ InitWriters(TwoWriterIds)
    /\ alone = [id \in TwoWriterIds |->
                   [self |-> ShardWriterFlatBuffer(DatasetStructure, ShardFile(id)),
                    file |-> files[ShardFile(id)]]]

\* The same write(values) on the writer that runs alone.
WriteAlone(id, r) == alone' = [alone EXCEPT ![id].self = r.self]

\* The same close() on the writer that runs alone.
CloseAlone(id, r) == alone' = [alone EXCEPT ![id].self = r.self, ![id].file = r.file]

WriteTwo(id, values) ==
    /\ Len(calls[id]) < MaxCallsEach
    /\ AfterWrite(id, values, _write(writers[id], values, sysbyteorder))
    /\ WriteAlone(id, _write(alone[id].self, values, sysbyteorder))

CloseTwo(id, outcome) ==
    /\ Len(calls[id]) < MaxCallsEach
    /\ AfterClose(id, outcome,
                  close(writers[id], files[writers[id]._shard_file], outcome))
    /\ CloseAlone(id, close(alone[id].self, alone[id].file, outcome))

NextTwo ==
    \/ \E id \in DOMAIN writers :
          \E values \in ExamplesOf(id, sysbyteorder) : WriteTwo(id, values)
    \/ \E id \in DOMAIN writers, outcome \in {"ok", "write fails"} :
          CloseTwo(id, outcome)

SpecTwo == InitTwo /\ [][NextTwo]_vars

(***************************************************************************)
(* What a reader finds, and what the caller wrote.                         *)
(***************************************************************************)
\* The example table at pos, decoded by the schema: per attribute of the
\* schema, in schema order, the numbers of its byte vector.
DecodeExample(bytes, pos, description) ==
    LET attributes == TablesOf(bytes, pos)
    IN  [j \in 1..Len(attributes) |->
            decode_array(AttributeBytes(bytes, attributes[j]), description[j])]

\* The examples of a shard file, decoded by the schema.
DecodeShard(bytes, description) ==
    LET examples == TablesOf(bytes, Indirect(bytes, 0))
    IN  [i \in 1..Len(examples) |-> DecodeExample(bytes, examples[i], description)]

\* What the caller's example is by the schema: per attribute of the schema,
\* in schema order, the numbers of the caller's array in row-major order.
NumbersOf(values, description) ==
    [j \in 1..Len(description) |->
        Numbers(Lookup(values, description[j].name), sysbyteorder)]

Description(id) == writers[id].dataset_structure.saved_data_description

\* The calls on the writer are write calls followed by one close() that
\* returned.
WritesThenClose(id) ==
    LET n == Len(calls[id])
    IN  /\ n > 0
        /\ calls[id][n] = Call("close", None)
        /\ \A k \in 1..(n - 1) : calls[id][k].op = "write"

LastIs(op, id) == last.op = op /\ last.id = id

\* C1: after write calls followed by a close() that returns, the examples
\* of the file are the examples of the write calls that returned, in call
\* order; a write call that raised contributes none.
C1_ExamplesInCallOrder ==
    \A id \in DOMAIN writers :
        (WritesThenClose(id) /\ accepted[id] # <<>>) =>
            /\ files[ShardFile(id)] # <<>>
            /\ DecodeShard(files[ShardFile(id)][1], Description(id))
                 = [i \in 1..Len(accepted[id]) |->
                        NumbersOf(accepted[id][i], Description(id))]

C1_Witness ==
    \E id \in DOMAIN writers :
        /\ WritesThenClose(id)
        /\ Len(accepted[id]) = 2
        /\ NumbersOf(accepted[id][1], Description(id))
             # NumbersOf(accepted[id][2], Description(id))
        /\ Len(DecodeShard(files[ShardFile(id)][1], Description(id))) = 2

\* C2: the example a write call has stored holds, at position j, the
\* numbers of the caller's array for the j-th attribute of the schema,
\* whatever the order of the keys of the caller's mapping.
C2_AttributesInSchemaOrder ==
    \A id \in DOMAIN writers :
        (LastIs("write", id) /\ last.err = None) =>
            LET b == writers[id]._builder[1]
                offset == writers[id]._examples[Len(writers[id]._examples)]
            IN  DecodeExample(b.Bytes, Len(b.Bytes) - offset, Description(id))
                    = NumbersOf(last.given, Description(id))

C2_Witness ==
    \E id \in DOMAIN writers :
        /\ LastIs("write", id) /\ last.err = None
        /\ last.given[1].name = Description(id)[Len(Description(id))].name
        /\ Len(writers[id]._examples) = 2

\* C3: a close() that returns on a writer on which no write call has
\* returned leaves no file at the target path.
C3_EmptyShardNoFile ==
    \A id \in DOMAIN writers :
        (LastIs("close", id) /\ last.err = None /\ accepted[id] = <<>>) =>
            files[ShardFile(id)] = <<>>

C3_Witness ==
    \E id \in DOMAIN writers :
        /\ LastIs("close", id) /\ last.err = None /\ accepted[id] = <<>>
        /\ \E k \in 1..Len(calls[id]) : calls[id][k] = Call("write", TypeMismatch)
        /\ files[ShardFile(id)] = <<>>

\* C4: a write call that raises TypeMismatch, for whichever attribute,
\* leaves the example list of the writer as it was.
C4_NoPartialEntry ==
    \A id \in DOMAIN writers :
        (LastIs("write", id) /\ last.err = TypeMismatch) =>
            writers[id]._examples = last.before._examples

C4_Witness ==
    \E id \in DOMAIN writers :
        /\ LastIs("write", id) /\ last.err = TypeMismatch
        /\ LET d == Description(id)
           IN  /\ ~can_cast(Lookup(last.given, d[Len(d)].name).dtype, d[Len(d)].dtype)
               /\ \A j \in 1..(Len(d) - 1) :
                      can_cast(Lookup(last.given, d[j].name).dtype, d[j].dtype)
        /\ Len(last.before._examples) = 1
        /\ writers[id]._examples = last.before._examples

\* C5: an encoder call on a value that does not cast safely to the declared
\* dtype raises TypeMismatch and leaves the builder, head and bytes and
\* all, as it was before the call.
C5_CastRejectionLeavesBuilder ==
    (enc.n > 0 /\ ~can_cast(enc.value.dtype, enc.attribute.dtype)) =>
        /\ enc.err = TypeMismatch
        /\ enc.b = enc.before

C5_Witness ==
    /\ enc.n = 2
    /\ ~can_cast(enc.value.dtype, enc.attribute.dtype)
    /\ enc.err = TypeMismatch
    /\ Offset(enc.before) > 0
    /\ enc.b.head = enc.before.head

\* C6 (as claimed): a write call made after a close() that returned raises
\* and appends no example: a closed writer stays closed.
C6_WriteAfterCloseFails ==
    \A id \in DOMAIN writers :
        (/\ LastIs("write", id)
         /\ \E k \in 1..(Len(calls[id]) - 1) : calls[id][k] = Call("close", None)) =>
            /\ last.err # None
            /\ writers[id]._examples = last.before._examples

(***************************************************************************)
(* The encoder's result as a reader takes it.                              *)
(***************************************************************************)
\* The index tuples of a shape, counted from 0.
Indices(shape) ==
    IF Len(shape) = 2
    THEN {<<i, j>> : i \in 0..(shape[1] - 1), j \in 0..(shape[2] - 1)}
    ELSE {<<i>> : i \in 0..(shape[1] - 1)}

\* numbers reshaped to shape in row-major order.
Reshape(numbers, shape) ==
    [idx \in Indices(shape) |->
        IF Len(shape) = 2 THEN numbers[idx[1] * shape[2] + idx[2] + 1]
        ELSE numbers[idx[1] + 1]]

\* The elements of an array by index tuple.
Elements(a, h) ==
    [idx \in Indices(a.shape) |->
        ElementValue(
            a.raw[IF Len(a.shape) = 1 THEN idx[1] + 1
                  ELSE IF a.layout = "F" THEN idx[2] * a.shape[1] + idx[1] + 1
                  ELSE idx[1] * a.shape[2] + idx[2] + 1],
            a.dtype, h)]

\* The last encoder call was given a value that casts safely and has the
\* declared shape.
EncodedCastable ==
    /\ enc.n > 0
    /\ can_cast(enc.value.dtype, enc.attribute.dtype)
    /\ enc.value.shape = enc.attribute.shape

\* C7: the stored bytes, taken as little-endian elements of the declared
\* dtype in row-major order and reshaped to the declared shape, are the
\* elements of the value cast to the declared dtype, whatever the byte order
\* of the value and of the host.
C7_RoundTrip ==
    EncodedCastable =>
        /\ enc.err = None
        /\ Reshape(decode_array(StoredBytes(enc.b, enc.ret), enc.attribute),
                   enc.attribute.shape)
             = Elements(np_array(enc.value, enc.attribute.dtype, sysbyteorder),
                        sysbyteorder)
        /\ Elements(np_array(enc.value, enc.attribute.dtype, sysbyteorder),
                    sysbyteorder)
             = Elements(enc.value, sysbyteorder)

C7_Witness ==
    /\ EncodedCastable
    /\ enc.err = None
    /\ enc.value.layout = "F"
    /\ enc.value.dtype = DType("i", 2, ">")
    /\ enc.attribute.dtype = Int32
    /\ sysbyteorder = "big"
    /\ \E idx \in Indices(enc.value.shape) : Elements(enc.value, sysbyteorder)[idx] < 0

\* Whether a value with the byte-order tag lies in memory little-endian.
TagIsLittleEndian(tag, h) == tag \in {"<", "|"} \/ (tag = "=" /\ h = "little")

\* The flattened value of the last encoder call, cast to the declared dtype.
CastValue ==
    np_array(flatten(np_copy(enc.value)), enc.attribute.dtype, sysbyteorder)

\* The little-endian two's complement bytes of the numbers of an array.
LittleEndianBytesOf(a, h) ==
    Flat([k \in 1..Len(a.raw) |->
            LittleEndianBytes(Numbers(a, h)[k], a.dtype.itemsize)])

\* C8: for every host byte order and every byte-order tag of the cast
\* value, the encoder swaps the bytes exactly when the value does not lie in
\* memory little-endian, and the stored bytes are little-endian; any other
\* tag raises UnexpectedByteOrder and nothing is stored.
C8_AlwaysLittleEndian ==
    EncodedCastable =>
        /\ StoredBytes(enc.b, enc.ret) = LittleEndianBytesOf(CastValue, sysbyteorder)
        /\ EnsureLittleEndianValue(Argument(CastValue), sysbyteorder).local.value
             = IF IsLittleEndian(CastValue.dtype, sysbyteorder) THEN CastValue
               ELSE byteswap(CastValue)
        /\ \A h \in {"little", "big"}, tag \in {"=", ">", "<", "|"} :
              /\ EnsureLittleEndian(Argument(CastValue), tag, h).err = None
              /\ EnsureLittleEndian(Argument(CastValue), tag, h).local.value
                   = IF TagIsLittleEndian(tag, h) THEN CastValue
                     ELSE byteswap(CastValue)
        /\ \A h \in {"little", "big"}, tag \in {"?", "+", ""} :
              /\ EnsureLittleEndian(Argument(CastValue), tag, h).err
                   = UnexpectedByteOrder
              /\ Embed(Return(enc.before, -1),
                       EnsureLittleEndian(Argument(CastValue), tag, h)).b
                   = enc.before
              /\ Embed(Return(enc.before, -1),
                       EnsureLittleEndian(Argument(CastValue), tag, h)).err
                   = UnexpectedByteOrder

C8_Witness ==
    /\ EncodedCastable
    /\ sysbyteorder = "big"
    /\ byteorder(CastValue.dtype, sysbyteorder) = "="
    /\ CastValue.dtype.itemsize = 4
    /\ StoredBytes(enc.b, enc.ret) # tobytes(CastValue)
    /\ StoredBytes(enc.b, enc.ret) = tobytes(byteswap(CastValue))

\* C9: after a write call, returned or raised, every array of the caller's
\* mapping is as it was: same bytes, same dtype and byte order, same shape
\* and layout.
C9_CallerArraysUnchanged ==
    last.op = "write" => last.values = last.given

C9_Witness ==
    /\ last.op = "write"
    /\ last.err = None
    /\ sysbyteorder = "big"
    /\ last.values = last.given
    /\ \E i \in 1..Len(last.given) :
          /\ last.given[i].array.dtype = DType("i", 2, ">")
          /\ Len(last.given[i].array.raw) = 2

\* C10: a destination handle is acquired only by close(), every handle a
\* close() acquires it releases before it returns or raises, and no handle
\* is open between calls.
C10_HandleScoped ==
    /\ handles = 0
    /\ last.acquired > 0 => last.op = "close"
    /\ last.released = last.acquired

C10_Witness ==
    /\ last.op = "close"
    /\ last.err = IOError
    /\ last.acquired = 1
    /\ last.released = 1
    /\ handles = 0

\* C11 (as claimed): when the file write inside close() fails, close()
\* raises the I/O error and the target path holds no partial file: it holds
\* no file, or the file it held before the call.
C11_NoPartialFileAfterFailedWrite ==
    \A id \in DOMAIN writers :
        (/\ LastIs("close", id)
         /\ last.outcome = "write fails"
         /\ last.acquired = 1) =>
            /\ last.err = IOError
            /\ files[ShardFile(id)] \in {<<>>, last.file}

\* The builder of a writer, a writer without one counting as one with a
\* fresh builder.
BuilderOf(self) == IF self._builder = <<>> THEN Builder(0) ELSE self._builder[1]

\* C12 (as claimed): a write call whose mapping lacks the value of a schema
\* attribute, whichever, raises MissingAttribute and leaves the example
\* list and the builder, head and bytes, as they were before the call.
C12_MissingAttributeNoPartialWrite ==
    \A id \in DOMAIN writers :
        (/\ LastIs("write", id)
         /\ \E j \in 1..Len(Description(id)) :
               Description(id)[j].name \notin Keys(last.given)) =>
            /\ last.err = MissingAttribute
            /\ writers[id]._examples = last.before._examples
            /\ BuilderOf(writers[id]) = BuilderOf(last.before)

\* C13 (as claimed): when the only write call made on a writer raised
\* TypeMismatch, the example list of the writer is empty and the writer has
\* no builder.
C13_FailedOnlyWriteStaysEmpty ==
    \A id \in DOMAIN writers :
        calls[id] = <<Call("write", TypeMismatch)>> =>
            /\ writers[id]._examples = <<>>
            /\ writers[id]._builder = <<>>

\* C14: with two writers of distinct target paths and their calls
\* interleaved in any order, each writer (example list, builder) and the
\* file at its path are what the calls made on that writer give when made
\* on a writer that runs alone.
C14_InstancesIndependent ==
    \A id \in DOMAIN alone :
        /\ writers[id] = alone[id].self
        /\ files[ShardFile(id)] = alone[id].file

C14_Witness ==
    /\ DOMAIN alone = {1, 2}
    /\ calls[1] = <<Call("write", None), Call("close", None)>>
    /\ calls[2] = <<Call("write", None), Call("write", TypeMismatch)>>
    /\ last.id = 2
    /\ writers[2]._examples = last.before._examples
    /\ last.before._examples # <<>>
    /\ last.file = <<>>
    /\ files[ShardFile(1)] # <<>>
    /\ writers[1] = alone[1].self
    /\ writers[2] = alone[2].self

\* C15: a write call leaves the file at the target path as it was and
\* opens nothing, and a call after which the file at the path is another
\* than before is a close() of a writer that holds at least one example.
C15_NoStorageBeforeClose ==
    \A id \in DOMAIN writers :
        /\ LastIs("write", id) =>
              /\ files[ShardFile(id)] = last.file
              /\ last.acquired = 0
        /\ (last.id = id /\ files[ShardFile(id)] # last.file) =>
              /\ last.op = "close"
              /\ last.before._examples # <<>>

C15_Witness ==
    \E id \in DOMAIN writers :
        /\ calls[id] = <<Call("write", None), Call("write", None)>>
        /\ LastIs("write", id)
        /\ Len(writers[id]._examples) = 2
        /\ last.file = <<>>
        /\ files[ShardFile(id)] = <<>>

\* The length that the vector at an offset of the builder records.
StoredLength(b, offset) == UIntAt(b.Bytes, Len(b.Bytes) - offset, UOffsetTBytewidth)

\* The number of bytes of the declared dtype for the declared shape.
ByteLength(attribute) == Product(attribute.shape) * attribute.dtype.itemsize

\* C16: an encoder call that returns has stored a vector of one-byte
\* elements: the length it records is the number of elements times the
\* item size of the declared dtype, the bytes after the length are that
\* many bytes, those of the value, the vector starts at a multiple of the
\* item size, and between it and what the builder held before lies no more
\* than the padding of the alignment.
C16_ByteLengthAndAlignment ==
    EncodedCastable =>
        /\ StoredLength(enc.b, enc.ret) = ByteLength(enc.attribute)
        /\ StoredBytes(enc.b, enc.ret) = tobytes(
               EnsureLittleEndianValue(Argument(CastValue), sysbyteorder).local.value)
        /\ Len(StoredBytes(enc.b, enc.ret)) = ByteLength(enc.attribute)
        /\ (enc.ret - UOffsetTBytewidth) % enc.attribute.dtype.itemsize = 0
        /\ enc.ret % UOffsetTBytewidth = 0
        /\ enc.ret = Offset(enc.b)
        /\ enc.ret - UOffsetTBytewidth - ByteLength(enc.attribute)
               \in Offset(enc.before)..(Offset(enc.before) + UOffsetTBytewidth - 1)

C16_Witness ==
    /\ EncodedCastable
    /\ enc.n = 2
    /\ enc.err = None
    /\ enc.attribute.dtype.itemsize = 4
    /\ Product(enc.attribute.shape) = 2
    /\ StoredLength(enc.b, enc.ret) = 8
    /\ Offset(enc.before) > 0

\* C17 (as claimed): over the life of a writer at most one builder is
\* allocated: a write call that allocates one is the first write call made
\* on the writer, close() allocates none, and a close() that returns on a
\* writer with examples leaves the writer without builder.
C17_OneBuilderPerWriter ==
    \A id \in DOMAIN writers :
        /\ (LastIs("write", id) /\ last.before._builder = <<>>) =>
              \A k \in 1..(Len(calls[id]) - 1) : calls[id][k].op # "write"
        /\ (LastIs("close", id) /\ last.before._builder = <<>>) =>
              writers[id]._builder = <<>>
        /\ (LastIs("close", id) /\ last.err = None
                /\ last.before._examples # <<>>) =>
              writers[id]._builder = <<>>

ClosedTwice(id) ==
    /\ LastIs("close", id)
    /\ Len(calls[id]) >= 2
    /\ calls[id][Len(calls[id]) - 1] = Call("close", None)
    /\ last.before._examples # <<>>

\* C19: a close() that follows, with no write between, a close() that wrote
\* a shard with examples raises without opening the destination: the file
\* is the one the first close() wrote, the example list is kept and the
\* writer has no builder.
C19_SecondCloseFailsBeforeOpening ==
    \A id \in DOMAIN writers :
        ClosedTwice(id) =>
            /\ last.err # None
            /\ last.acquired = 0
            /\ files[ShardFile(id)] = last.file
            /\ last.file # <<>>
            /\ writers[id]._examples = last.before._examples
            /\ writers[id]._builder = <<>>

C19_Witness ==
    \E id \in DOMAIN writers :
        /\ ClosedTwice(id)
        /\ calls[id] = <<Call("write", None), Call("close", None),
                         Call("close", "AttributeError")>>
        /\ files[ShardFile(id)] = last.file
        /\ Len(DecodeShard(files[ShardFile(id)][1], Description(id))) = 1

====
